---- MODULE Spec2Model ----
(***************************************************************************)
(* The housekeeper of server/core/housekeeper.c: a spinlock-protected      *)
(* singly linked list of tasks, the API that links and unlinks entries     *)
(* (hktask_add, hktask_oneshot, hktask_remove, hkshow_tasks, hkshutdown)   *)
(* and the housekeeper thread hkthread that ticks, scans the list and      *)
(* calls the due tasks with the spinlock released.                         *)
(*                                                                         *)
(* Heap entries (HKTASK) are the elements of mem, addressed by the number  *)
(* malloc returned for them; the list `tasks` is the sequence of those     *)
(* addresses in ->next order.  API calls run in a caller context: "hk" is  *)
(* the housekeeper thread itself (calls made from inside a task callback   *)
(* and the hktask_remove of line 287), the others are client threads.      *)
(*                                                                         *)
(* Granularity.  A step is a piece of code no other thread can observe the *)
(* middle of: what a function does before it takes the spinlock (private   *)
(* memory and one read of the clock), a critical section, what it does     *)
(* after the release.  The walk of hkthread over the entries that are not  *)
(* due happens with the lock held and is part of the step that ends it.    *)
(* hktask_remove frees what it unlinked right after the release; nothing   *)
(* but the remover holds the unlinked entry's address except a caller that *)
(* is about to read it (hktask_return), for which the free is what counts, *)
(* so unlink and free are one step.  malloc and strdup returning NULL      *)
(* (lines 91-99, 157-165: return 0, nothing touched) are not modelled.     *)
(***************************************************************************)
EXTENDS Integers, Sequences, FiniteSets, TLC

\* ---------------------------------------------------------------- bounds
\* the names callers pass
Names == {"a", "b"}
\* the intervals and delays callers pass: none, and a positive one
Freqs == {0, 1}
Clients == {"t1"}
Callers == Clients \cup {"hk"}
\* how many entries malloc hands out
MaxAllocs == 2
\* how far the wall clock advances
MaxTime == 1
\* how far the heartbeat counts
MaxBeat == 11
\* line 259: for (i = 0; i < 10; i++)
TICKS == 10

HK_REPEATED == "HK_REPEATED"
HK_ONESHOT == "HK_ONESHOT"
Free == "free"
HkThread == "hkthread"

Addrs == 1..MaxAllocs
\* What a read of freed memory may yield as an int.
RetRange == 0..(MaxTime + 1)

VARIABLES
    tasks,          \* the list headed by `tasks`: addresses in ->next order
    mem,            \* the heap: address -> HKTASK (or unallocated / freed)
    tasklock,       \* holder of the spinlock
    do_shutdown,
    hkheartbeat,
    clock,          \* what time(0) returns
    pc,             \* hkthread: where it is
    i,              \* hkthread: tick counter of the inner for loop
    now,            \* hkthread: time read at the start of the scan
    taskfn,         \* hkthread: the function copied out (that of entry taskfn)
    type,           \* hkthread: copied type
    name,           \* hkthread: copied name
    call,           \* per caller context: the API call in progress
    ret,            \* output: the API call the last step completed, with the
                    \* value it returned (NoEvent: the step completed none)
    called,         \* history: the live entries whose function has been called
    ran             \* history: the live entries called in the current scan

vars == <<tasks, mem, tasklock, do_shutdown, hkheartbeat, clock, pc, i, now,
          taskfn, type, name, call, ret, called, ran>>

hkvars == <<pc, i, now, taskfn, type, name>>

\* ------------------------------------------------------------- helpers
Unalloc == [st |-> "unalloc", name |-> "", type |-> "", frequency |-> 0, nextdue |-> 0]
Freed == [st |-> "freed", name |-> "", type |-> "", frequency |-> 0, nextdue |-> 0]
\* due: the nextdue the call computed before it took the lock (history)
Idle == [pc |-> "idle", task |-> 0, due |-> 0]
NoEvent == [fn |-> "", name |-> "", val |-> -1]
Event(fn, n, v) == [fn |-> fn, name |-> n, val |-> v]

Range(list) == {list[k] : k \in 1..Len(list)}

\* malloc: a fresh address (the lowest never handed out), 0 when exhausted
Malloc ==
    IF \E a \in Addrs : mem[a].st = "unalloc"
    THEN CHOOSE a \in Addrs : /\ mem[a].st = "unalloc"
                              /\ \A b \in Addrs : b < a => mem[b].st # "unalloc"
    ELSE 0

\* lines 100-105: the entry hktask_add fills in before it takes the lock
NewRepeated(n, frequency) ==
    [st |-> "live", name |-> n, type |-> HK_REPEATED, frequency |-> frequency,
     nextdue |-> clock + frequency]

\* lines 166-171: the entry hktask_oneshot fills in before it takes the lock
NewOneShot(n, when) ==
    [st |-> "live", name |-> n, type |-> HK_ONESHOT, frequency |-> 0,
     nextdue |-> clock + when]

\* The walk of lines 107-127 and of 204-209: index of the first entry of the
\* list whose name compares equal, 0 (NULL) when the walk falls off the end.
RECURSIVE FindFrom(_, _, _)
FindFrom(list, n, k) ==
    IF k > Len(list) THEN 0
    ELSE IF mem[list[k]].name = n THEN k
    ELSE FindFrom(list, n, k + 1)

\* A walk that stops on the last entry whatever its name.
FindName_last(list, n) ==
    IF FindFrom(list, n, 1) # 0 THEN FindFrom(list, n, 1) ELSE Len(list)

FindName(list, n) == FindFrom(list, n, 1)

\* lines 210-217: the list with the entry at index k unlinked
Unlink(list, k) == [j \in 1..(Len(list) - 1) |-> IF j < k THEN list[j] ELSE list[j + 1]]

\* No duplicate test at all.
IsDuplicate_never(list, n) == FALSE

\* A duplicate test that stops in front of the last entry (the separate
\* comparison of lines 119-127 left out).
IsDuplicate_butlast(list, n) ==
    Len(list) > 1 /\ FindFrom(SubSeq(list, 1, Len(list) - 1), n, 1) # 0

\* A duplicate test that looks at the repeated entries only.
IsDuplicate_repeated(list, n) ==
    \E k \in 1..Len(list) : mem[list[k]].name = n /\ mem[list[k]].type = HK_REPEATED

\* lines 108-127: hktask_add's duplicate test compares every entry's name
IsDuplicate(list, n) == FindName(list, n) # 0

\* A due test that is a second early.
IsDue_early(e, t) == e.nextdue <= t + 1

\* line 273
IsDue(e, t) == e.nextdue <= t

\* No write of nextdue before the call.
Rescheduled_stale(e, t) == e.nextdue

\* Rescheduling from the time the entry was due instead of from `now`.
Rescheduled_nominal(e, t) == e.nextdue + e.frequency

\* line 275
Rescheduled(e, t) == t + e.frequency

\* The walk of lines 270-273 and 292-295 (ptr = tasks; ptr = ptr->next while
\* the entry is not due): index of the first due entry, 0 when there is none.
RECURSIVE DueFrom(_, _, _)
DueFrom(list, t, k) ==
    IF k > Len(list) THEN 0
    ELSE IF IsDue(mem[list[k]], t) THEN k
    ELSE DueFrom(list, t, k + 1)

FirstDue(list, t) == DueFrom(list, t, 1)

\* lines 136, 188: `return task->nextdue` after the lock was released
ReadNextdue(a) == IF mem[a].st = "live" THEN {mem[a].nextdue} ELSE RetRange

\* A release that leaves the lock with its holder.
spinlock_release_kept == tasklock

\* lines 283, 297, 338: spinlock_release(&tasklock)
spinlock_release == Free

\* free(): the block is gone, and with it the history kept about it
FreeIn(m, a) == [m EXCEPT ![a] = Freed]
Forget(e, a) == e \ {a}

\* ---------------------------------------------------------------- Init
Init ==
    /\ tasks = <<>>
    /\ mem = [a \in Addrs |-> Unalloc]
    /\ tasklock = Free
    /\ do_shutdown = 0
    /\ hkheartbeat = 0
    /\ clock = 0
    /\ pc = "tick"
    /\ i = 0
    /\ now = 0
    /\ taskfn = 0
    /\ type = ""
    /\ name = ""
    /\ call = [c \in Callers |-> Idle]
    /\ ret = NoEvent
    /\ called = {}
    /\ ran = {}

\* A caller context may start an API call: a client thread any time it is
\* between calls, the housekeeper thread only from inside a task callback.
CanCall(c) ==
    /\ call[c].pc = "idle"
    /\ c = "hk" => pc = "callback"

\* ----------------------------------------------------------- hktask_add
\* lines 91-105: allocate and fill in the entry
hktask_add_alloc(c, n, frequency) ==
    /\ CanCall(c)
    /\ Malloc # 0
    /\ mem' = [mem EXCEPT ![Malloc] = NewRepeated(n, frequency)]
    /\ call' = [call EXCEPT ![c] = [pc |-> "add_lock", task |-> Malloc,
                                    due |-> clock + frequency]]
    /\ ret' = NoEvent
    /\ UNCHANGED <<tasks, tasklock, do_shutdown, hkheartbeat, clock, hkvars, called, ran>>

\* lines 106-134: the critical section: duplicate check, then link at the tail
hktask_add_link(c) ==
    /\ call[c].pc = "add_lock"
    /\ tasklock = Free
    /\ IF IsDuplicate(tasks, mem[call[c].task].name)
       THEN /\ mem' = FreeIn(mem, call[c].task)
            /\ call' = [call EXCEPT ![c] = Idle]
            /\ ret' = Event("hktask_add", mem[call[c].task].name, 0)
            /\ UNCHANGED tasks
       ELSE /\ tasks' = Append(tasks, call[c].task)
            /\ call' = [call EXCEPT ![c].pc = "add_ret"]
            /\ ret' = NoEvent
            /\ UNCHANGED mem
    /\ UNCHANGED <<tasklock, do_shutdown, hkheartbeat, clock, hkvars, called, ran>>

\* line 136: return task->nextdue
hktask_add_return(c) ==
    /\ call[c].pc = "add_ret"
    /\ \E v \in ReadNextdue(call[c].task) : ret' = Event("hktask_add", "", v)
    /\ call' = [call EXCEPT ![c] = Idle]
    /\ UNCHANGED <<tasks, mem, tasklock, do_shutdown, hkheartbeat, clock, hkvars, called, ran>>

\* ------------------------------------------------------- hktask_oneshot
\* lines 157-171: allocate and fill in the entry
hktask_oneshot_alloc(c, n, when) ==
    /\ CanCall(c)
    /\ Malloc # 0
    /\ mem' = [mem EXCEPT ![Malloc] = NewOneShot(n, when)]
    /\ call' = [call EXCEPT ![c] = [pc |-> "oneshot_lock", task |-> Malloc,
                                    due |-> clock + when]]
    /\ ret' = NoEvent
    /\ UNCHANGED <<tasks, tasklock, do_shutdown, hkheartbeat, clock, hkvars, called, ran>>

\* lines 172-186: the critical section: link at the tail, no name test
hktask_oneshot_link(c) ==
    /\ call[c].pc = "oneshot_lock"
    /\ tasklock = Free
    /\ tasks' = Append(tasks, call[c].task)
    /\ call' = [call EXCEPT ![c].pc = "oneshot_ret"]
    /\ ret' = NoEvent
    /\ UNCHANGED <<mem, tasklock, do_shutdown, hkheartbeat, clock, hkvars, called, ran>>

\* line 188: return task->nextdue
hktask_oneshot_return(c) ==
    /\ call[c].pc = "oneshot_ret"
    /\ \E v \in ReadNextdue(call[c].task) : ret' = Event("hktask_oneshot", "", v)
    /\ call' = [call EXCEPT ![c] = Idle]
    /\ UNCHANGED <<tasks, mem, tasklock, do_shutdown, hkheartbeat, clock, hkvars, called, ran>>

\* -------------------------------------------------------- hktask_remove
\* lines 203-229: unlink the first entry of that name under the lock, then
\* free it and return 1; return 0 when no entry has the name
RemoveNamed(n) ==
    /\ tasklock = Free
    /\ LET k == FindName(tasks, n) IN
         IF k # 0
         THEN /\ tasks' = Unlink(tasks, k)
              /\ mem' = FreeIn(mem, tasks[k])
              /\ called' = Forget(called, tasks[k])
              /\ ran' = Forget(ran, tasks[k])
              /\ ret' = Event("hktask_remove", n, 1)
         ELSE /\ ret' = Event("hktask_remove", n, 0)
              /\ UNCHANGED <<tasks, mem, called, ran>>

hktask_remove(c, n) ==
    /\ CanCall(c)
    /\ RemoveNamed(n)
    /\ UNCHANGED <<tasklock, do_shutdown, hkheartbeat, clock, hkvars, call>>

\* --------------------------------------------------------- hkshow_tasks
\* lines 323-326: print the header, take the lock, start at the head
hkshow_lock(c) ==
    /\ c \in Clients
    /\ CanCall(c)
    /\ tasklock = Free
    /\ tasklock' = c
    /\ call' = [call EXCEPT ![c] = [pc |-> "show", task |-> 0, due |-> 0]]
    /\ ret' = NoEvent
    /\ UNCHANGED <<tasks, mem, do_shutdown, hkheartbeat, clock, hkvars, called, ran>>

\* lines 327-338: print the rows with the lock held, then release it
hkshow_rows(c) ==
    /\ call[c].pc = "show"
    /\ tasklock' = spinlock_release
    /\ call' = [call EXCEPT ![c] = Idle]
    /\ ret' = NoEvent
    /\ UNCHANGED <<tasks, mem, do_shutdown, hkheartbeat, clock, hkvars, called, ran>>

\* ----------------------------------------------------------- hkshutdown
\* lines 305-309
hkshutdown ==
    /\ do_shutdown' = 1
    /\ ret' = NoEvent
    /\ UNCHANGED <<tasks, mem, tasklock, hkheartbeat, clock, hkvars, call, called, ran>>

\* ------------------------------------------------------------- hkthread
\* A return that looks at the flag in the middle of a callback as well.
hk_return_anywhere ==
    /\ pc \in {"tick", "callback"}
    /\ do_shutdown # 0
    /\ pc' = "done"
    /\ ret' = NoEvent
    /\ UNCHANGED <<tasks, mem, tasklock, do_shutdown, hkheartbeat, clock, i, now,
                   taskfn, type, name, call, called, ran>>

\* lines 261-264: the flag is set at the top of a tick
hk_return ==
    /\ pc = "tick"
    /\ do_shutdown # 0
    /\ pc' = "done"
    /\ ret' = NoEvent
    /\ UNCHANGED <<tasks, mem, tasklock, do_shutdown, hkheartbeat, clock, i, now,
                   taskfn, type, name, call, called, ran>>

\* A tick whose counter starts over with every scan cycle.
hk_tick_wrapping ==
    /\ pc = "tick"
    /\ do_shutdown = 0
    /\ hkheartbeat < MaxBeat
    /\ hkheartbeat' = IF i + 1 < TICKS THEN hkheartbeat + 1 ELSE 0
    /\ i' = IF i + 1 < TICKS THEN i + 1 ELSE 0
    /\ pc' = IF i + 1 < TICKS THEN "tick" ELSE "now"
    /\ ret' = NoEvent
    /\ UNCHANGED <<tasks, mem, tasklock, do_shutdown, clock, now,
                   taskfn, type, name, call, called, ran>>

\* A tick that counts the beat only when the tenth tick is done.
hk_tick_percycle ==
    /\ pc = "tick"
    /\ do_shutdown = 0
    /\ hkheartbeat < MaxBeat
    /\ hkheartbeat' = IF i + 1 < TICKS THEN hkheartbeat ELSE hkheartbeat + 1
    /\ i' = IF i + 1 < TICKS THEN i + 1 ELSE 0
    /\ pc' = IF i + 1 < TICKS THEN "tick" ELSE "now"
    /\ ret' = NoEvent
    /\ UNCHANGED <<tasks, mem, tasklock, do_shutdown, clock, now,
                   taskfn, type, name, call, called, ran>>

\* lines 259-266: one tick: the flag is clear, sleep 100 ms, count the beat;
\* after the tenth the for loop is left without another look at the flag
hk_tick ==
    /\ pc = "tick"
    /\ do_shutdown = 0
    /\ hkheartbeat < MaxBeat
    /\ hkheartbeat' = hkheartbeat + 1
    /\ i' = IF i + 1 < TICKS THEN i + 1 ELSE 0
    /\ pc' = IF i + 1 < TICKS THEN "tick" ELSE "now"
    /\ ret' = NoEvent
    /\ UNCHANGED <<tasks, mem, tasklock, do_shutdown, clock, now,
                   taskfn, type, name, call, called, ran>>

\* line 268
hk_now ==
    /\ pc = "now"
    /\ now' = clock
    /\ pc' = "acquire"
    /\ ret' = NoEvent
    /\ UNCHANGED <<tasks, mem, tasklock, do_shutdown, hkheartbeat, clock, i,
                   taskfn, type, name, call, called, ran>>

\* lines 269-270 and 289-290: take the lock and start from the head
hk_acquire ==
    /\ pc \in {"acquire", "reacquire"}
    /\ tasklock = Free
    /\ tasklock' = HkThread
    /\ pc' = "scan"
    /\ taskfn' = 0
    /\ type' = ""
    /\ name' = ""
    /\ ret' = NoEvent
    /\ UNCHANGED <<tasks, mem, do_shutdown, hkheartbeat, clock, i, now, call, called, ran>>

\* lines 271-284: walk to the first due entry, reschedule it, copy out what
\* the call needs, unlock and call it
hk_scan_run ==
    /\ pc = "scan"
    /\ FirstDue(tasks, now) # 0
    /\ LET a == tasks[FirstDue(tasks, now)] IN
         /\ mem' = [mem EXCEPT ![a].nextdue = Rescheduled(mem[a], now)]
         /\ taskfn' = a
         /\ type' = mem[a].type
         /\ name' = mem[a].name
         /\ called' = called \cup {a}
         /\ ran' = ran \cup {a}
    /\ tasklock' = spinlock_release
    /\ pc' = "callback"
    /\ ret' = NoEvent
    /\ UNCHANGED <<tasks, do_shutdown, hkheartbeat, clock, i, now, call>>

\* line 284 returns; line 285
hk_callback_return ==
    /\ pc = "callback"
    /\ call["hk"].pc = "idle"
    /\ pc' = IF type = HK_ONESHOT THEN "remove" ELSE "reacquire"
    /\ ret' = NoEvent
    /\ UNCHANGED <<tasks, mem, tasklock, do_shutdown, hkheartbeat, clock, i, now,
                   taskfn, type, name, call, called, ran>>

\* line 287: hktask_remove(name) with the copied name
hk_oneshot_remove ==
    /\ pc = "remove"
    /\ RemoveNamed(name)
    /\ pc' = "reacquire"
    /\ UNCHANGED <<tasklock, do_shutdown, hkheartbeat, clock, i, now,
                   taskfn, type, name, call>>

\* lines 271-273, 292-297 and back to 259: the walk finds no due entry and
\* falls off the end
hk_scan_end ==
    /\ pc = "scan"
    /\ FirstDue(tasks, now) = 0
    /\ tasklock' = spinlock_release
    /\ pc' = "tick"
    /\ now' = 0
    /\ ran' = {}
    /\ ret' = NoEvent
    /\ UNCHANGED <<tasks, mem, do_shutdown, hkheartbeat, clock, i, taskfn, type, name,
                   call, called>>

\* ------------------------------------------------------------ the clock
time_passes ==
    /\ clock < MaxTime
    /\ clock' = clock + 1
    /\ ret' = NoEvent
    /\ UNCHANGED <<tasks, mem, tasklock, do_shutdown, hkheartbeat, hkvars, call, called, ran>>

\* ----------------------------------------------------------------- Next
Driver ==
    \/ hk_return
    \/ hk_tick
    \/ hk_now
    \/ hk_acquire
    \/ hk_scan_run
    \/ hk_callback_return
    \/ hk_oneshot_remove
    \/ hk_scan_end

\* the steps that finish an API call a caller context has begun
Finish(c) ==
    \/ hktask_add_link(c)
    \/ hktask_add_return(c)
    \/ hktask_oneshot_link(c)
    \/ hktask_oneshot_return(c)
    \/ hkshow_rows(c)

Api ==
    \/ \E c \in Callers, n \in Names, f \in Freqs : hktask_add_alloc(c, n, f)
    \/ \E c \in Callers, n \in Names, w \in Freqs : hktask_oneshot_alloc(c, n, w)
    \/ \E c \in Callers, n \in Names : hktask_remove(c, n)
    \/ \E c \in Clients : hkshow_lock(c)
    \/ \E c \in Callers : Finish(c)
    \/ hkshutdown

Next == Driver \/ Api \/ time_passes

Spec == Init /\ [][Next]_vars

\* The housekeeper thread keeps running and a call that was begun is
\* finished (callbacks return, the listing releases the lock); a thread that
\* spins on the lock gets it when the lock is free again and again, hence
\* strong fairness.
FairSpec ==
    /\ Spec
    /\ SF_vars(Driver)
    /\ \A c \in Callers : SF_vars(Finish(c))

\* ================================================================ claims
\* Entries of the list that carry the name n.
Holders(n) == {a \in Range(tasks) : mem[a].name = n}

\* The step is hkthread calling a task function (lines 275-284).
Runs == pc = "scan" /\ pc' = "callback"

\* ------------------------------------------------------------------- C4
\* C4: when hktask_add is called with a name a Repeated entry of the
\* registry already carries, it returns 0 and the registry is exactly as it
\* was: the same entries in the same order, each with its interval, function
\* and nextdue untouched.
C4_DuplicateAddRejected ==
    [][\A c \in Callers :
          (/\ call[c].pc = "add_lock"
           /\ call'[c].pc # "add_lock"
           /\ \E a \in Holders(mem[call[c].task].name) : mem[a].type = HK_REPEATED)
          => /\ ret' = Event("hktask_add", mem[call[c].task].name, 0)
             /\ tasks' = tasks
             /\ \A a \in Range(tasks) : mem'[a] = mem[a]
             /\ mem'[call[c].task].st = "freed"]_vars

\* An add has just been turned down and a Repeated entry holds its name.
C4_Witness ==
    /\ ret.fn = "hktask_add"
    /\ ret.val = 0
    /\ \E a \in Holders(ret.name) : mem[a].type = HK_REPEATED

\* ------------------------------------------------------------------- C7
\* C7: hktask_remove of a name no entry carries returns 0 and leaves the
\* registry and every entry untouched, whether a client thread calls it, a
\* task callback, or hkthread itself for a one-shot task it has just run.
C7_RemoveAbsent ==
    [][/\ \A c \in Callers, n \in Names :
            (hktask_remove(c, n) /\ Holders(n) = {})
            => (ret' = Event("hktask_remove", n, 0) /\ tasks' = tasks /\ mem' = mem)
       /\ (hk_oneshot_remove /\ Holders(name) = {})
            => (ret' = Event("hktask_remove", name, 0) /\ tasks' = tasks /\ mem' = mem)]_vars

\* A remove called from inside a callback has just returned 0 for a name
\* that is not in a registry which is not empty.
C7_Witness ==
    /\ ret.fn = "hktask_remove"
    /\ ret.val = 0
    /\ Holders(ret.name) = {}
    /\ tasks # <<>>
    /\ pc = "callback"
    /\ \A c \in Clients : call[c].pc # "idle"

\* ------------------------------------------------------------------- C8
\* C8: hkthread holds the spinlock exactly while it walks the list and
\* never while a task function runs; while one runs the lock is free or
\* held by a client that is printing the list and will release it, so a
\* call made from the callback gets the lock.
C8_LockNotHeldInCallback ==
    /\ tasklock = HkThread <=> pc = "scan"
    /\ pc = "callback" =>
         \/ tasklock = Free
         \/ \E c \in Clients : tasklock = c /\ call[c].pc = "show" /\ ENABLED hkshow_rows(c)
    /\ (pc = "callback" /\ tasklock = Free /\ call["hk"].pc = "idle") =>
         \A n \in Names : ENABLED hktask_remove("hk", n)
    /\ (pc = "callback" /\ tasklock = Free /\ call["hk"].pc \in {"add_lock", "oneshot_lock"}) =>
         ENABLED (hktask_add_link("hk") \/ hktask_oneshot_link("hk"))

\* A callback is running and has removed, through the API, the very entry
\* that is being run.
C8_Witness ==
    /\ pc = "callback"
    /\ taskfn # 0
    /\ mem[taskfn].st = "freed"
    /\ ret.fn = "hktask_remove"
    /\ ret.val = 1

\* ------------------------------------------------------------------- C1
\* C1: a one-shot entry is run exactly once: hkthread never calls the
\* function of a one-shot entry it has called before, and when it has run a
\* one-shot entry and is done with the removal that follows, that entry is
\* no longer in the registry.
C1_OneShotRunsOnce ==
    [][/\ Runs => ~(type' = HK_ONESHOT /\ taskfn' \in called)
       /\ (pc = "remove" /\ pc' = "reacquire") => taskfn \notin Range(tasks')]_vars

\* ------------------------------------------------------------------- C2
\* C2: within one scan cycle hkthread calls no entry's function twice.
C2_OncePerCycle ==
    [][Runs => taskfn' \notin ran]_vars

\* ------------------------------------------------------------------- C3
\* C3: every scan cycle terminates: once hkthread holds the lock for a scan
\* it gets back to the tick loop, whatever the registry holds.
C3_ScanTerminates ==
    (pc = "scan") ~> (pc = "tick")

\* ------------------------------------------------------------------- C5
\* C5 as stated: hktask_add is turned down only when a Repeated entry holds
\* the name; otherwise the entry is linked at the tail and the call returns
\* the nextdue it computed, the time of the call plus the interval.
C5_Original ==
    [][\A c \in Callers :
          /\ (/\ call[c].pc = "add_lock"
              /\ call'[c].pc # "add_lock"
              /\ \A a \in Holders(mem[call[c].task].name) : mem[a].type # HK_REPEATED)
             => tasks' = Append(tasks, call[c].task)
          /\ (call[c].pc = "add_ret" /\ call'[c].pc = "idle")
             => ret' = Event("hktask_add", "", call[c].due)]_vars

\* C5: hktask_add is turned down (returns 0, registry untouched) whenever
\* any entry, Repeated or one-shot, holds the name; when no entry holds it,
\* the call links at the tail a Repeated entry of that name whose nextdue is
\* the time read by the call plus the interval.
C5_AddChecksEveryName ==
    [][\A c \in Callers :
          /\ (call[c].pc = "idle" /\ call'[c].pc = "add_lock")
             => /\ mem'[call'[c].task].type = HK_REPEATED
                /\ mem'[call'[c].task].nextdue = clock + mem'[call'[c].task].frequency
                /\ call'[c].due = mem'[call'[c].task].nextdue
                /\ tasks' = tasks
          /\ (/\ call[c].pc = "add_lock"
              /\ call'[c].pc # "add_lock"
              /\ Holders(mem[call[c].task].name) # {})
             => /\ ret' = Event("hktask_add", mem[call[c].task].name, 0)
                /\ tasks' = tasks
                /\ \A a \in Range(tasks) : mem'[a] = mem[a]
          /\ (/\ call[c].pc = "add_lock"
              /\ call'[c].pc # "add_lock"
              /\ Holders(mem[call[c].task].name) = {})
             => /\ tasks' = Append(tasks, call[c].task)
                /\ mem' = mem
                /\ mem[call[c].task].type = HK_REPEATED
                /\ mem[call[c].task].nextdue = call[c].due]_vars

\* An add has just been turned down although only one-shot entries hold
\* its name.
C5_Witness ==
    /\ ret.fn = "hktask_add"
    /\ ret.val = 0
    /\ Holders(ret.name) # {}
    /\ \A a \in Holders(ret.name) : mem[a].type = HK_ONESHOT

\* ------------------------------------------------------------------- C6
\* C6: hktask_oneshot tests no name: it always links its entry at the tail,
\* and it returns the time of the call plus the delay.
C6_OneShotLinksAndReturnsDue ==
    [][\A c \in Callers :
          /\ (call[c].pc = "oneshot_lock" /\ call'[c].pc # "oneshot_lock")
             => tasks' = Append(tasks, call[c].task)
          /\ (call[c].pc = "oneshot_ret" /\ call'[c].pc = "idle")
             => ret' = Event("hktask_oneshot", "", call[c].due)]_vars

\* ------------------------------------------------------------------- C9
\* C9 as stated: a Repeated entry run at wall-clock time T' gets the
\* nextdue T' plus its interval.
C9_Original ==
    [][(Runs /\ type' = HK_REPEATED)
       => mem'[taskfn'].nextdue = clock + mem[taskfn'].frequency]_vars

\* C9: a Repeated entry that is run gets the nextdue `now` plus its
\* interval, `now` being the time hkthread read once at the start of the
\* scan, however late in the scan the entry is run; the rest of the entry
\* and the registry stay as they were.
C9_NextDueFromScanTime ==
    [][(Runs /\ type' = HK_REPEATED)
       => /\ mem'[taskfn'].nextdue = now + mem[taskfn'].frequency
          /\ mem'[taskfn'].frequency = mem[taskfn'].frequency
          /\ mem[taskfn'].nextdue <= now
          /\ tasks' = tasks
          /\ now' = now]_vars

\* A Repeated entry is being run in a scan whose `now` the clock has left
\* behind, and carries the nextdue computed from `now`.
C9_Witness ==
    /\ pc = "callback"
    /\ type = HK_REPEATED
    /\ mem[taskfn].st = "live"
    /\ now < clock
    /\ mem[taskfn].nextdue = now + mem[taskfn].frequency

\* ------------------------------------------------------------------ C10
\* C10: when a callback links a new Repeated entry that is due at that
\* moment, hkthread runs it before the scan ends, and the scan then ends.
C10_InsertedDueRunsAndScanEnds ==
    \A a \in Addrs :
        (/\ pc = "callback"
         /\ call["hk"].pc = "add_ret"
         /\ call["hk"].task = a
         /\ a \in Range(tasks)
         /\ mem[a].nextdue <= now)
        ~> (pc = "tick" /\ (a \in called \/ mem[a].st = "freed"))
C12_NoScanAfterShutdown ==
    [][(pc = "now" /\ pc' = "acquire") => do_shutdown = 0]_vars
\* ------------------------------------------------------------------ C13
\* C13: hkthread never terminates in the middle of a callback: it returns
\* only from the flag test of the tick loop, and a callback that is running
\* is left only by its own return, whether the flag is set or not.
C13_NoExitDuringCallback ==
    [][/\ (pc' = "done" /\ pc # "done") => pc = "tick"
       /\ (pc = "callback" /\ pc' # "callback") =>
             (call["hk"].pc = "idle" /\ pc' \in {"remove", "reacquire"})]_vars

\* hkthread has terminated after a scan in which it ran a task.
C13_Witness ==
    /\ pc = "done"
    /\ hkheartbeat >= TICKS
    /\ do_shutdown = 1
    /\ called # {}

\* ------------------------------------------------------------------ C14
\* C14: hkshow_tasks does not hold the lock while it prints: whenever a
\* listing is printing the rows of a registry that has entries, the lock
\* is free.
C14_ListingPrintsUnlocked ==
    \A c \in Clients : (call[c].pc = "show" /\ tasks # <<>>) => tasklock = Free
\* ------------------------------------------------------------------ C15
\* C15: nextdue is written with the lock held, before the call: hkthread
\* holds the lock in the state from which it calls a task, and while the
\* function of a Repeated entry with a positive interval runs, the entry,
\* if it is still in the registry, has nextdue = now + interval, which is
\* later than now: the walk of a scan with this `now` would pass it over.
C15_NextDueSetBeforeCall ==
    /\ pc = "scan" => tasklock = HkThread
    /\ (/\ pc = "callback"
        /\ type = HK_REPEATED
        /\ taskfn \in Range(tasks)
        /\ mem[taskfn].frequency > 0)
       => /\ mem[taskfn].st = "live"
          /\ mem[taskfn].nextdue = now + mem[taskfn].frequency
          /\ mem[taskfn].nextdue > now
          /\ ~IsDue(mem[taskfn], now)

\* The function of a registered Repeated entry with a positive interval is
\* running.
C15_Witness ==
    /\ pc = "callback"
    /\ type = HK_REPEATED
    /\ taskfn \in Range(tasks)
    /\ mem[taskfn].frequency > 0

\* ------------------------------------------------------------------ C16
\* C16: after hkshutdown hkthread eventually terminates, given fair
\* scheduling and callbacks that return, and stays terminated.
C16_ShutdownTerminates ==
    /\ (do_shutdown = 1) ~> (pc = "done")
    /\ [](pc = "done" => [](pc = "done"))
\* ------------------------------------------------------------------ C17
\* C17: no task is called before it is due: an entry gets its nextdue, not
\* earlier than the time of the call, from the add that creates it; until
\* it is first run nothing changes that nextdue; and hkthread calls an
\* entry only when its nextdue is not later than the scan's `now`, which is
\* not later than the wall clock.
C17_NotBeforeDue ==
    [][/\ Runs => (mem[taskfn'].nextdue <= now /\ now <= clock)
       /\ \A a \in Addrs :
            /\ (mem[a].st = "unalloc" /\ mem'[a].st = "live") =>
                  \E c \in Callers :
                     /\ call'[c].task = a
                     /\ mem'[a].nextdue = call'[c].due
                     /\ mem'[a].nextdue \in {clock + d : d \in Freqs}
                     /\ mem'[a].type = HK_REPEATED =>
                           mem'[a].nextdue = clock + mem'[a].frequency
            /\ (mem[a].st = "live" /\ mem'[a].st = "live" /\ a \notin called') =>
                  mem'[a].nextdue = mem[a].nextdue]_vars

\* A task is being run while an entry ahead of it in the list, which the
\* walk passed over as not yet due, has never been run.
C17_Witness ==
    /\ pc = "callback"
    /\ \E j, k \in 1..Len(tasks) :
          /\ j < k
          /\ tasks[k] = taskfn
          /\ tasks[j] \notin called
          /\ mem[tasks[j]].nextdue > now

\* ------------------------------------------------------------------ C18
\* C18: the heartbeat starts at 0 and only the tick loop of hkthread
\* changes it, by adding one: no API call, callback or other step of
\* hkthread resets or lowers it.
C18_BeatMonotone ==
    /\ hkheartbeat = 0
    /\ [][\/ hkheartbeat' = hkheartbeat
          \/ /\ hkheartbeat' = hkheartbeat + 1
             /\ pc = "tick"
             /\ do_shutdown = 0
             /\ UNCHANGED <<tasks, mem, tasklock, do_shutdown, call>>]_vars

\* The heartbeat has gone on counting after a scan in which a task ran and
\* an API call returned.
C18_Witness ==
    /\ hkheartbeat > TICKS
    /\ called # {}
    /\ ret # NoEvent
\* ------------------------------------------------------------------ C19
\* C19: no two Repeated entries of the registry have the same name, under
\* any interleaving of adds and removes from a client thread and from
\* callbacks with the scan.
C19_RepeatedNamesUnique ==
    \A j, k \in 1..Len(tasks) :
        (/\ j # k
         /\ mem[tasks[j]].type = HK_REPEATED
         /\ mem[tasks[k]].type = HK_REPEATED)
        => mem[tasks[j]].name # mem[tasks[k]].name

\* Two adds of one name were in progress at once, one on a client thread
\* and one in a callback: the first to take the lock has linked its entry
\* and not returned yet, the other has just been turned down.
C19_Witness ==
    /\ pc = "callback"
    /\ ret.fn = "hktask_add"
    /\ ret.val = 0
    /\ \E c \in Callers :
          /\ call[c].pc = "add_ret"
          /\ call[c].task \in Range(tasks)
          /\ mem[call[c].task].type = HK_REPEATED
          /\ mem[call[c].task].name = ret.name

\* ------------------------------------------------------------------ C20
\* C20: no thread touches an entry that has been freed: when hktask_add or
\* hktask_oneshot reads the nextdue of its entry for the return value, the
\* entry is still allocated, and so is every entry that is in the list.
C20_NoUseAfterFree ==
    [][/\ \A c \in Callers :
            (call[c].pc \in {"add_ret", "oneshot_ret"} /\ call'[c].pc = "idle")
            => mem[call[c].task].st = "live"
       /\ \A a \in Range(tasks') : mem'[a].st = "live"]_vars
\* ------------------------------------------------------------------ C21
\* C21: the removal hkthread makes after it has run a one-shot entry takes
\* away the entry that was run and no other: every other entry that was in
\* the registry before the removal is in it afterwards, still allocated.
C21_AutoRemovalOnlyOfRunEntry ==
    [][(pc = "remove" /\ pc' = "reacquire")
       => \A a \in Range(tasks) :
             a # taskfn => (a \in Range(tasks') /\ mem'[a] = mem[a])]_vars
====
